---- MODULE Spec2Model ----
(***************************************************************************)
(* The rules engine of the Scoundrel card game (src/game.js): the Game     *)
(* object, its public operations and the card-resolution rules, as a state *)
(* machine.  Every operation is a function from the Game object to the     *)
(* Game object after the call and the value the call returns; the actions  *)
(* of the specification apply these functions to the one Game instance.    *)
(*                                                                         *)
(* The full dungeon has 44 cards.  The model builds its deck with the same *)
(* construction (createDeck) from a window of the rank table: the ranks    *)
(* whose value is in LowRank .. LowRank + NumRanks - 1.  The seeded random *)
(* number generator of shuffle() is a closure over floating-point sin();   *)
(* the model keeps what the engine uses of it, the sequence of numbers in  *)
(* [0,1) it yields for a seed, and represents a seed by that sequence,     *)
(* quantised to the two values 0 and 1/2: the n-th call of rng() for seed  *)
(* s >= 0 yields (n-th binary digit of s) / 2.  The closure returns        *)
(* s - Math.floor(s) in double precision, which is 1.0 for a negative s of *)
(* magnitude below 2^-54; the negative seeds of the model stand for the    *)
(* seeds (such as -1e-21) whose first call yields that 1.0.                *)
(***************************************************************************)
EXTENDS Integers, Sequences, FiniteSets, Bags, TLC

VARIABLES
    game,       \* the Game instance (this): a record of its fields
    last,       \* the last public call and what it returned: [op, ret]
    snapshot,   \* the object a getState() call returned, if the driver
                \* holds one: <<>> or <<[state, taken, shared]>>
    timers      \* the callbacks ui.js has passed to setTimeout:
                \* [waiting, scheduled], those that have not run yet, oldest
                \* first, and the number scheduled since the page was loaded

vars == <<game, last, snapshot, timers>>

----------------------------------------------------------------------------
(* Bounds of the model *)

\* lowest rank value of the window of RANKS the deck is built from
LowRank == 9
\* number of consecutive rank values in the window
NumRanks == 2
\* the seeds of the games are 0 .. MaxSeed
MaxSeed == 3
\* the seeds of the shuffles are -MaxShuffleSeed - 1 .. MaxShuffleSeed
MaxShuffleSeed == 127
\* the calls a driver makes on the game after it has taken a snapshot
MaxSnapshotCalls == 1
\* the callbacks handleCardClick schedules after the page was loaded
MaxTimers == 2

----------------------------------------------------------------------------
(* Card utilities *)

SUITS == [HEARTS |-> "hearts", DIAMONDS |-> "diamonds",
          CLUBS |-> "clubs", SPADES |-> "spades"]

\* the rank table in Object.entries order (integer-like keys ascending, then
\* J, Q, K, A in insertion order)
AllRanks ==
    << [rank |-> "2", value |-> 2],   [rank |-> "3", value |-> 3],
       [rank |-> "4", value |-> 4],   [rank |-> "5", value |-> 5],
       [rank |-> "6", value |-> 6],   [rank |-> "7", value |-> 7],
       [rank |-> "8", value |-> 8],   [rank |-> "9", value |-> 9],
       [rank |-> "10", value |-> 10], [rank |-> "J", value |-> 11],
       [rank |-> "Q", value |-> 12],  [rank |-> "K", value |-> 13],
       [rank |-> "A", value |-> 14] >>

InWindow(e) == e.value >= LowRank /\ e.value < LowRank + NumRanks

\* Object.entries(RANKS), within the window of the model
RANKS == SelectSeq(AllRanks, InWindow)

\* JS null in a numeric slot (card values are >= 2)
null == 0

\* JS null / undefined in a card slot
noCard == [suit |-> "", rank |-> "", value |-> null]

\* this.weapon = null
noWeapon == [value |-> null, lastDefeated |-> null, defeatedMonsters |-> <<>>]

getCardType(card) ==
    IF card.suit = SUITS.CLUBS \/ card.suit = SUITS.SPADES THEN "monster"
    ELSE IF card.suit = SUITS.DIAMONDS THEN "weapon"
    ELSE IF card.suit = SUITS.HEARTS THEN "potion"
    ELSE "unknown"

Digits == <<"0", "1", "2", "3", "4", "5", "6", "7", "8", "9">>

\* String(n) of a non-negative integer: its decimal digits
RECURSIVE String(_)
String(n) ==
    IF n < 10 THEN Digits[n + 1]
    ELSE String(n \div 10) \o Digits[(n % 10) + 1]

\* the cards of one suit, one per rank entry, in entry order
cardsOf(suit, entries) ==
    [i \in 1..Len(entries) |->
        [suit |-> suit, rank |-> entries[i].rank, value |-> entries[i].value]]

IsPip(e) == e.value >= 2 /\ e.value <= 10

createDeck ==
    cardsOf(SUITS.CLUBS, RANKS) \o cardsOf(SUITS.SPADES, RANKS)
      \o cardsOf(SUITS.DIAMONDS, SelectSeq(RANKS, IsPip))
      \o cardsOf(SUITS.HEARTS, SelectSeq(RANKS, IsPip))

\* number of cards of the dungeon (44 with the full rank table)
DeckSize == Len(createDeck)

Seeds == 0..MaxSeed

\* the seeds shuffle is checked with: every stream of the quantised numbers
\* a deck of DeckSize cards consumes, and the same streams behind a first
\* number of 1.0
ShuffleSeeds == (0 - MaxShuffleSeed - 1)..MaxShuffleSeed

\* the n-th number (n = 0, 1, ...) the seeded rng() yields, as a numerator
\* over 2: 0 stands for 0.0, 1 for 0.5 and 2 for 1.0.  The closure computes
\*   s = Math.sin(s) * 10000;  return s - Math.floor(s);
\* in doubles.  For a seed s >= 0 of the model the stream is the binary digits
\* of s.  A seed s < 0 of the model is a negative seed of magnitude below
\* 5e-21: Math.sin(s) * 10000 is then a negative number of magnitude below
\* 2^-54, Math.floor of it is -1, and the difference rounds to 1.0; the later
\* numbers of its stream are the binary digits of -s - 1
rng(seed, n) ==
    IF seed >= 0 THEN (seed \div (2 ^ n)) % 2
    ELSE IF n = 0 THEN 2
    ELSE ((0 - seed - 1) \div (2 ^ (n - 1))) % 2

\* [array[i], array[j]] = [array[j], array[i]].  At j = array.length (the
\* largest j the loop of shuffle can compute) array[j] is undefined: array[i]
\* becomes undefined and the assignment to array[j] lengthens the array
swap(array, i, j) ==
    IF j < Len(array)
    THEN [array EXCEPT ![i + 1] = array[j + 1], ![j + 1] = array[i + 1]]
    ELSE [array EXCEPT ![i + 1] = noCard] \o <<array[i + 1]>>

\* the loop of shuffle at 0-based index i, having called rng() n times;
\* j = Math.floor(rng() * (i + 1))
RECURSIVE shuffleLoop(_, _, _, _)
shuffleLoop(array, seed, i, n) ==
    IF i > 0
    THEN LET j == (rng(seed, n) * (i + 1)) \div 2
         IN shuffleLoop(swap(array, i, j), seed, i - 1, n + 1)
    ELSE array

shuffle(array, seed) == shuffleLoop(array, seed, Len(array) - 1, 0)

----------------------------------------------------------------------------
(* The Game class *)

maxHealth == 20

\* one entry of eventLog.  Of { message, type, timestamp } the model keeps the
\* type, the message as the name of its template (event) with the card and
\* the main number the template interpolates, and no timestamp
entry(type, event, card, n) ==
    [type |-> type, event |-> event, card |-> card, n |-> n]

logEvent(g, type, event, card, n) ==
    [g EXCEPT !.eventLog = Append(@, entry(type, event, card, n))]

reset(seed) ==
    [ seed |-> seed,
      health |-> 20,
      turn |-> 0,
      deck |-> shuffle(createDeck, seed),
      discard |-> <<>>,
      room |-> <<>>,
      weapon |-> noWeapon,
      canAvoid |-> TRUE,
      roomCarriedCard |-> noCard,
      potionUsedThisTurn |-> FALSE,
      selectedCards |-> <<>>,
      gameOver |-> FALSE,
      gameWon |-> FALSE,
      defeatingCard |-> noCard,
      eventLog |-> <<entry("info", "Game started", noCard, 0)>> ]

Min(a, b) == IF a < b THEN a ELSE b
Max(a, b) == IF a > b THEN a ELSE b

isMonster(c) == getCardType(c) = "monster"

RECURSIVE sumValues(_)
sumValues(cards) ==
    IF cards = <<>> THEN 0 ELSE Head(cards).value + sumValues(Tail(cards))

\* the sum endGame and getScore compute over the deck and the room
monsterSum(g) ==
    sumValues(SelectSeq(g.deck, isMonster) \o SelectSeq(g.room, isMonster))

\* endGame(won): the terminal flags, and the score, which goes to the log
endGame(g, won) ==
    LET g1 == [g EXCEPT !.gameOver = TRUE, !.gameWon = won]
    IN IF won
       THEN LET score == g1.health
            IN logEvent(g1, "success", "Victory", noCard, score)
       ELSE LET score == 0 - monsterSum(g1)
            IN logEvent(g1, "danger", "Defeated", noCard, score)

getScore(g) ==
    IF g.gameWon THEN g.health
    ELSE IF g.gameOver THEN 0 - monsterSum(g)
    ELSE 0

\* the loop of drawRoom filling the room to five cards
RECURSIVE drawLoop_fiveCards(_)
drawLoop_fiveCards(g) ==
    IF Len(g.room) < 5 /\ Len(g.deck) > 0
    THEN drawLoop_fiveCards([g EXCEPT !.room = Append(@, Head(g.deck)),
                                      !.deck = Tail(@)])
    ELSE g

\* while (room.length < 4 && deck.length > 0) room.push(deck.shift())
RECURSIVE drawLoop(_)
drawLoop(g) ==
    IF Len(g.room) < 4 /\ Len(g.deck) > 0
    THEN drawLoop([g EXCEPT !.room = Append(@, Head(g.deck)),
                            !.deck = Tail(@)])
    ELSE g

\* drawRoom that declares victory on an empty deck whatever the room holds
drawRoom_winsOnEmptyDeck(g) ==
    IF g.gameOver THEN [game |-> g, ret |-> FALSE]
    ELSE LET g1 == [g EXCEPT !.room = <<>>,
                             !.potionUsedThisTurn = FALSE,
                             !.selectedCards = <<>>]
             g2 == IF g1.roomCarriedCard # noCard
                   THEN [logEvent(g1, "info", "Carried", g1.roomCarriedCard, 0)
                            EXCEPT !.room = Append(@, g1.roomCarriedCard),
                                   !.roomCarriedCard = noCard]
                   ELSE g1
             g3 == drawLoop(g2)
             g4 == [g3 EXCEPT !.turn = @ + 1]
         IN IF Len(g4.deck) = 0
            THEN [game |-> endGame(g4, TRUE), ret |-> FALSE]
            ELSE [game |-> logEvent(g4, "turn", "Entered new room",
                                    noCard, Len(g4.room)),
                  ret |-> TRUE]

\* drawRoom that leaves the carried card in the carry slot as well
drawRoom_keepsCarried(g) ==
    IF g.gameOver THEN [game |-> g, ret |-> FALSE]
    ELSE LET g1 == [g EXCEPT !.room = <<>>,
                             !.potionUsedThisTurn = FALSE,
                             !.selectedCards = <<>>]
             g2 == IF g1.roomCarriedCard # noCard
                   THEN [logEvent(g1, "info", "Carried", g1.roomCarriedCard, 0)
                            EXCEPT !.room = Append(@, g1.roomCarriedCard)]
                   ELSE g1
             g3 == drawLoop(g2)
             g4 == [g3 EXCEPT !.turn = @ + 1]
         IN IF Len(g4.room) < 4 /\ Len(g4.deck) = 0
            THEN [game |-> endGame(g4, TRUE), ret |-> FALSE]
            ELSE [game |-> logEvent(g4, "turn", "Entered new room",
                                    noCard, Len(g4.room)),
                  ret |-> TRUE]

\* drawRoom that never declares victory
drawRoom_neverWins(g) ==
    IF g.gameOver THEN [game |-> g, ret |-> FALSE]
    ELSE LET g1 == [g EXCEPT !.room = <<>>,
                             !.potionUsedThisTurn = FALSE,
                             !.selectedCards = <<>>]
             g2 == IF g1.roomCarriedCard # noCard
                   THEN [logEvent(g1, "info", "Carried", g1.roomCarriedCard, 0)
                            EXCEPT !.room = Append(@, g1.roomCarriedCard),
                                   !.roomCarriedCard = noCard]
                   ELSE g1
             g3 == drawLoop(g2)
             g4 == [g3 EXCEPT !.turn = @ + 1]
         IN [game |-> logEvent(g4, "turn", "Entered new room",
                               noCard, Len(g4.room)),
             ret |-> TRUE]

\* drawRoom that does not count the draw that wins the game
drawRoom_victoryNotCounted(g) ==
    IF g.gameOver THEN [game |-> g, ret |-> FALSE]
    ELSE LET g1 == [g EXCEPT !.room = <<>>,
                             !.potionUsedThisTurn = FALSE,
                             !.selectedCards = <<>>]
             g2 == IF g1.roomCarriedCard # noCard
                   THEN [logEvent(g1, "info", "Carried", g1.roomCarriedCard, 0)
                            EXCEPT !.room = Append(@, g1.roomCarriedCard),
                                   !.roomCarriedCard = noCard]
                   ELSE g1
             g3 == drawLoop(g2)
         IN IF Len(g3.room) < 4 /\ Len(g3.deck) = 0
            THEN [game |-> endGame(g3, TRUE), ret |-> FALSE]
            ELSE [game |-> logEvent([g3 EXCEPT !.turn = @ + 1],
                                    "turn", "Entered new room",
                                    noCard, Len(g3.room)),
                  ret |-> TRUE]

\* drawRoom that puts the carried card behind the cards drawn from the deck
drawRoom_carriedLast(g) ==
    IF g.gameOver THEN [game |-> g, ret |-> FALSE]
    ELSE LET g1 == [g EXCEPT !.room = <<>>,
                             !.potionUsedThisTurn = FALSE,
                             !.selectedCards = <<>>]
             g2 == IF g1.roomCarriedCard # noCard
                   THEN logEvent(g1, "info", "Carried", g1.roomCarriedCard, 0)
                   ELSE g1
             g3 == [g2 EXCEPT
                      !.room = SubSeq(g2.deck, 1,
                                      Min(Len(g2.deck),
                                          4 - Len(IF g2.roomCarriedCard # noCard
                                                  THEN <<g2.roomCarriedCard>>
                                                  ELSE <<>>)))
                                 \o (IF g2.roomCarriedCard # noCard
                                     THEN <<g2.roomCarriedCard>> ELSE <<>>),
                      !.deck = SubSeq(g2.deck,
                                      Min(Len(g2.deck),
                                          4 - Len(IF g2.roomCarriedCard # noCard
                                                  THEN <<g2.roomCarriedCard>>
                                                  ELSE <<>>)) + 1,
                                      Len(g2.deck)),
                      !.roomCarriedCard = noCard]
             g4 == [g3 EXCEPT !.turn = @ + 1]
         IN IF Len(g4.room) < 4 /\ Len(g4.deck) = 0
            THEN [game |-> endGame(g4, TRUE), ret |-> FALSE]
            ELSE [game |-> logEvent(g4, "turn", "Entered new room",
                                    noCard, Len(g4.room)),
                  ret |-> TRUE]

drawRoom(g) ==
    IF g.gameOver THEN [game |-> g, ret |-> FALSE]
    ELSE LET g1 == [g EXCEPT !.room = <<>>,
                             !.potionUsedThisTurn = FALSE,
                             !.selectedCards = <<>>]
             g2 == IF g1.roomCarriedCard # noCard
                   THEN [logEvent(g1, "info", "Carried", g1.roomCarriedCard, 0)
                            EXCEPT !.room = Append(@, g1.roomCarriedCard),
                                   !.roomCarriedCard = noCard]
                   ELSE g1
             g3 == drawLoop(g2)
             g4 == [g3 EXCEPT !.turn = @ + 1]
         IN IF Len(g4.room) < 4 /\ Len(g4.deck) = 0
            THEN [game |-> endGame(g4, TRUE), ret |-> FALSE]
            ELSE [game |-> logEvent(g4, "turn", "Entered new room",
                                    noCard, Len(g4.room)),
                  ret |-> TRUE]

\* avoidRoom that does not put the room back under the deck
avoidRoom_dropsRoom(g) ==
    IF ~g.canAvoid \/ g.gameOver \/ Len(g.room) # 4
    THEN [game |-> g, ret |-> FALSE]
    ELSE LET g1 == [g EXCEPT !.room = <<>>,
                             !.canAvoid = FALSE,
                             !.roomCarriedCard = noCard]
             g2 == logEvent(g1, "warning", "Avoided the room", noCard, 0)
         IN [game |-> drawRoom(g2).game, ret |-> TRUE]

\* avoidRoom that leaves canAvoid as it is
avoidRoom_keepsCanAvoid(g) ==
    IF ~g.canAvoid \/ g.gameOver \/ Len(g.room) # 4
    THEN [game |-> g, ret |-> FALSE]
    ELSE LET g1 == [g EXCEPT !.deck = @ \o g.room,
                             !.room = <<>>,
                             !.roomCarriedCard = noCard]
             g2 == logEvent(g1, "warning", "Avoided the room", noCard, 0)
         IN [game |-> drawRoom(g2).game, ret |-> TRUE]

\* avoidRoom that puts the room on top of the deck
avoidRoom_roomOnTop(g) ==
    IF ~g.canAvoid \/ g.gameOver \/ Len(g.room) # 4
    THEN [game |-> g, ret |-> FALSE]
    ELSE LET g1 == [g EXCEPT !.deck = g.room \o @,
                             !.room = <<>>,
                             !.canAvoid = FALSE,
                             !.roomCarriedCard = noCard]
             g2 == logEvent(g1, "warning", "Avoided the room", noCard, 0)
         IN [game |-> drawRoom(g2).game, ret |-> TRUE]

avoidRoom(g) ==
    IF ~g.canAvoid \/ g.gameOver \/ Len(g.room) # 4
    THEN [game |-> g, ret |-> FALSE]
    ELSE LET g1 == [g EXCEPT !.deck = @ \o g.room,
                             !.room = <<>>,
                             !.canAvoid = FALSE,
                             !.roomCarriedCard = noCard]
             g2 == logEvent(g1, "warning", "Avoided the room", noCard, 0)
         IN [game |-> drawRoom(g2).game, ret |-> TRUE]

\* array.indexOf(x): the 0-based index of the first x, or -1
indexOf(array, x) ==
    IF \E k \in 1..Len(array) : array[k] = x
    THEN (CHOOSE k \in 1..Len(array) :
             array[k] = x /\ \A m \in 1..(k - 1) : array[m] # x) - 1
    ELSE -1

\* array.splice(at, 1) at a 0-based index
splice1(array, at) ==
    SubSeq(array, 1, at) \o SubSeq(array, at + 2, Len(array))

\* this.room[index]: undefined outside the array
roomAt(g, index) ==
    IF index >= 0 /\ index < Len(g.room) THEN g.room[index + 1] ELSE noCard

\* selectCard without the limit of three selected cards
selectCard_noLimit(g, index) ==
    IF g.gameOver \/ roomAt(g, index) = noCard
    THEN [game |-> g, ret |-> FALSE]
    ELSE LET cardIndex == indexOf(g.selectedCards, index)
         IN IF cardIndex >= 0
            THEN [game |-> [g EXCEPT !.selectedCards = splice1(@, cardIndex)],
                  ret |-> TRUE]
            ELSE [game |-> [g EXCEPT !.selectedCards = Append(@, index)],
                  ret |-> TRUE]

\* selectCard that goes on after the game is over
selectCard_ignoresGameOver(g, index) ==
    IF roomAt(g, index) = noCard
    THEN [game |-> g, ret |-> FALSE]
    ELSE LET cardIndex == indexOf(g.selectedCards, index)
         IN IF cardIndex >= 0
            THEN [game |-> [g EXCEPT !.selectedCards = splice1(@, cardIndex)],
                  ret |-> TRUE]
            ELSE IF Len(g.selectedCards) < 3
            THEN [game |-> [g EXCEPT !.selectedCards = Append(@, index)],
                  ret |-> TRUE]
            ELSE [game |-> g, ret |-> TRUE]

selectCard(g, index) ==
    IF g.gameOver \/ roomAt(g, index) = noCard
    THEN [game |-> g, ret |-> FALSE]
    ELSE LET cardIndex == indexOf(g.selectedCards, index)
         IN IF cardIndex >= 0
            THEN [game |-> [g EXCEPT !.selectedCards = splice1(@, cardIndex)],
                  ret |-> TRUE]
            ELSE IF Len(g.selectedCards) < 3
            THEN [game |-> [g EXCEPT !.selectedCards = Append(@, index)],
                  ret |-> TRUE]
            ELSE [game |-> g, ret |-> TRUE]

\* resolveWeapon that hands the old weapon's lastDefeated to the new weapon
resolveWeapon_keepsLastDefeated(g, card) ==
    LET g1 == IF g.weapon # noWeapon
              THEN logEvent(
                     [g EXCEPT !.discard =
                         Append(@, [suit |-> SUITS.DIAMONDS,
                                    rank |-> String(g.weapon.value),
                                    value |-> g.weapon.value])
                           \o g.weapon.defeatedMonsters],
                     "info", "Discarded old weapon", noCard,
                     Len(g.weapon.defeatedMonsters))
              ELSE g
        g2 == [g1 EXCEPT !.weapon = [value |-> card.value,
                                     lastDefeated |-> g.weapon.lastDefeated,
                                     defeatedMonsters |-> <<>>]]
    IN logEvent(g2, "success", "Equipped weapon", card, card.value)

\* resolveWeapon that forgets the old weapon's defeated monsters
resolveWeapon_dropsHistory(g, card) ==
    LET g1 == IF g.weapon # noWeapon
              THEN [g EXCEPT !.discard =
                         Append(@, [suit |-> SUITS.DIAMONDS,
                                    rank |-> String(g.weapon.value),
                                    value |-> g.weapon.value])]
              ELSE g
    IN [g1 EXCEPT !.weapon = [value |-> card.value,
                              lastDefeated |-> null,
                              defeatedMonsters |-> <<>>]]

resolveWeapon(g, card) ==
    LET g1 == IF g.weapon # noWeapon
              THEN logEvent(
                     [g EXCEPT !.discard =
                         Append(@, [suit |-> SUITS.DIAMONDS,
                                    rank |-> String(g.weapon.value),
                                    value |-> g.weapon.value])
                           \o g.weapon.defeatedMonsters],
                     "info", "Discarded old weapon", noCard,
                     Len(g.weapon.defeatedMonsters))
              ELSE g
        g2 == [g1 EXCEPT !.weapon = [value |-> card.value,
                                     lastDefeated |-> null,
                                     defeatedMonsters |-> <<>>]]
    IN logEvent(g2, "success", "Equipped weapon", card, card.value)

\* resolvePotion that heals with every potion of a room
resolvePotion_everyPotion(g, card) ==
    LET oldHealth == g.health
        g1 == [g EXCEPT !.health = Min(maxHealth, g.health + card.value)]
        healed == g1.health - oldHealth
        g2 == [g1 EXCEPT !.potionUsedThisTurn = TRUE,
                         !.discard = Append(@, card)]
    IN logEvent(g2, "success", "Used potion", card, healed)

\* resolvePotion that heals without the clamp to maxHealth
resolvePotion_noClamp(g, card) ==
    IF g.potionUsedThisTurn
    THEN [g EXCEPT !.discard = Append(@, card)]
    ELSE [g EXCEPT !.health = g.health + card.value,
                   !.potionUsedThisTurn = TRUE,
                   !.discard = Append(@, card)]

resolvePotion(g, card) ==
    IF g.potionUsedThisTurn
    THEN logEvent([g EXCEPT !.discard = Append(@, card)],
                  "warning", "discarded - only one potion per room", card, 0)
    ELSE LET oldHealth == g.health
             g1 == [g EXCEPT !.health = Min(maxHealth, g.health + card.value)]
             healed == g1.health - oldHealth
             g2 == [g1 EXCEPT !.potionUsedThisTurn = TRUE,
                              !.discard = Append(@, card)]
         IN logEvent(g2, "success", "Used potion", card, healed)

\* the weapon test without the non-increasing rule
canUseWeapon_anyMonster(g, card) == g.weapon # noWeapon

\* the weapon test of resolveMonster: the weapon is equipped and the
\* non-increasing rule allows the fight
canUseWeapon(g, card) ==
    g.weapon # noWeapon
      /\ (g.weapon.lastDefeated = null \/ card.value <= g.weapon.lastDefeated)

\* resolveMonster that does not record the card that killed the player
resolveMonster_noDefeatingCard(g, card) ==
    LET usedWeapon == canUseWeapon(g, card)
        damage == IF usedWeapon
                  THEN Max(0, card.value - g.weapon.value)
                  ELSE card.value
        g1 == IF usedWeapon
              THEN logEvent(
                     [g EXCEPT !.weapon.defeatedMonsters = Append(@, card),
                               !.weapon.lastDefeated = card.value],
                     IF damage = 0 THEN "success" ELSE "warning",
                     "Fought with weapon", card, damage)
              ELSE IF g.weapon # noWeapon
              THEN logEvent([g EXCEPT !.discard = Append(@, card)],
                            "danger", "too strong for weapon", card, damage)
              ELSE logEvent([g EXCEPT !.discard = Append(@, card)],
                            "danger", "Fought bare-handed", card, damage)
    IN IF damage > 0
       THEN LET g2 == [g1 EXCEPT !.health = @ - damage]
            IN IF g2.health <= 0
               THEN endGame(g2, FALSE)
               ELSE g2
       ELSE g1

\* resolveMonster that does not discard a monster fought without the weapon
resolveMonster_noDiscard(g, card) ==
    LET usedWeapon == canUseWeapon(g, card)
        damage == IF usedWeapon
                  THEN Max(0, card.value - g.weapon.value)
                  ELSE card.value
        g1 == IF usedWeapon
              THEN logEvent(
                     [g EXCEPT !.weapon.defeatedMonsters = Append(@, card),
                               !.weapon.lastDefeated = card.value],
                     IF damage = 0 THEN "success" ELSE "warning",
                     "Fought with weapon", card, damage)
              ELSE IF g.weapon # noWeapon
              THEN logEvent(g, "danger", "too strong for weapon", card, damage)
              ELSE logEvent(g, "danger", "Fought bare-handed", card, damage)
    IN IF damage > 0
       THEN LET g2 == [g1 EXCEPT !.health = @ - damage]
            IN IF g2.health <= 0
               THEN endGame([g2 EXCEPT !.defeatingCard = card], FALSE)
               ELSE g2
       ELSE g1

\* resolveMonster that stacks the monster without noting it as lastDefeated
resolveMonster_keepsLastDefeated(g, card) ==
    LET usedWeapon == canUseWeapon(g, card)
        damage == IF usedWeapon
                  THEN Max(0, card.value - g.weapon.value)
                  ELSE card.value
        g1 == IF usedWeapon
              THEN logEvent(
                     [g EXCEPT !.weapon.defeatedMonsters = Append(@, card)],
                     IF damage = 0 THEN "success" ELSE "warning",
                     "Fought with weapon", card, damage)
              ELSE IF g.weapon # noWeapon
              THEN logEvent([g EXCEPT !.discard = Append(@, card)],
                            "danger", "too strong for weapon", card, damage)
              ELSE logEvent([g EXCEPT !.discard = Append(@, card)],
                            "danger", "Fought bare-handed", card, damage)
    IN IF damage > 0
       THEN LET g2 == [g1 EXCEPT !.health = @ - damage]
            IN IF g2.health <= 0
               THEN endGame([g2 EXCEPT !.defeatingCard = card], FALSE)
               ELSE g2
       ELSE g1

resolveMonster(g, card) ==
    LET usedWeapon == canUseWeapon(g, card)
        damage == IF usedWeapon
                  THEN Max(0, card.value - g.weapon.value)
                  ELSE card.value
        g1 == IF usedWeapon
              THEN logEvent(
                     [g EXCEPT !.weapon.defeatedMonsters = Append(@, card),
                               !.weapon.lastDefeated = card.value],
                     IF damage = 0 THEN "success" ELSE "warning",
                     "Fought with weapon", card, damage)
              ELSE IF g.weapon # noWeapon
              THEN logEvent([g EXCEPT !.discard = Append(@, card)],
                            "danger", "too strong for weapon", card, damage)
              ELSE logEvent([g EXCEPT !.discard = Append(@, card)],
                            "danger", "Fought bare-handed", card, damage)
    IN IF damage > 0
       THEN LET g2 == [g1 EXCEPT !.health = @ - damage]
            IN IF g2.health <= 0
               THEN endGame([g2 EXCEPT !.defeatingCard = card], FALSE)
               ELSE g2
       ELSE g1

\* the switch of faceRoom on the card's type
resolveCard(g, card) ==
    CASE getCardType(card) = "weapon" -> resolveWeapon(g, card)
      [] getCardType(card) = "potion" -> resolvePotion(g, card)
      [] getCardType(card) = "monster" -> resolveMonster(g, card)
      [] OTHER -> g

\* the loop of faceRoom without the break at a game over
RECURSIVE resolveLoop_noBreak(_, _)
resolveLoop_noBreak(g, selected) ==
    IF selected = <<>> THEN g
    ELSE resolveLoop_noBreak(resolveCard(g, roomAt(g, Head(selected))),
                             Tail(selected))

\* for (const index of this.selectedCards) { ...; if (this.gameOver) break; }
\* over the indices `selected`, which the loop body does not change
RECURSIVE resolveLoop(_, _)
resolveLoop(g, selected) ==
    IF selected = <<>> THEN g
    ELSE LET g1 == resolveCard(g, roomAt(g, Head(selected)))
         IN IF g1.gameOver THEN g1 ELSE resolveLoop(g1, Tail(selected))

includes(array, x) == \E k \in 1..Len(array) : array[k] = x

\* the carried index taken to be the last room position
carriedIndexOf_lastPosition(selected) == 3

\* [0, 1, 2, 3].find(i => !selectedCards.includes(i)); -1 stands for undefined
carriedIndexOf(selected) ==
    IF \E i \in 0..3 : ~includes(selected, i)
    THEN CHOOSE i \in 0..3 :
            ~includes(selected, i) /\ \A m \in 0..(i - 1) : includes(selected, m)
    ELSE -1

\* faceRoom that resolves whatever is selected
faceRoom_anySelection(g) ==
    IF g.gameOver
    THEN [game |-> g, ret |-> FALSE]
    ELSE LET g1 == resolveLoop(g, g.selectedCards)
             carriedIndex == carriedIndexOf(g1.selectedCards)
             g2 == IF carriedIndex # -1
                   THEN [g1 EXCEPT !.roomCarriedCard = roomAt(g1, carriedIndex)]
                   ELSE g1
             g3 == [g2 EXCEPT !.room = <<>>,
                              !.canAvoid = TRUE,
                              !.selectedCards = <<>>]
         IN IF ~g3.gameOver
            THEN [game |-> drawRoom(g3).game, ret |-> TRUE]
            ELSE [game |-> g3, ret |-> TRUE]

faceRoom(g) ==
    IF Len(g.selectedCards) # 3 \/ g.gameOver
    THEN [game |-> g, ret |-> FALSE]
    ELSE LET g1 == resolveLoop(g, g.selectedCards)
             carriedIndex == carriedIndexOf(g1.selectedCards)
             g2 == IF carriedIndex # -1
                   THEN [g1 EXCEPT !.roomCarriedCard = roomAt(g1, carriedIndex)]
                   ELSE g1
             g3 == [g2 EXCEPT !.room = <<>>,
                              !.canAvoid = TRUE,
                              !.selectedCards = <<>>]
         IN IF ~g3.gameOver
            THEN [game |-> drawRoom(g3).game, ret |-> TRUE]
            ELSE [game |-> g3, ret |-> TRUE]

\* canResolveCard(card): { canResolve, reason, forceBareHanded }, with the
\* reason as the name of its template, "" for no reason and FALSE for no
\* forceBareHanded
canResolveCard(g, card) ==
    LET type == getCardType(card)
    IN IF type = "potion" /\ g.potionUsedThisTurn
       THEN [canResolve |-> FALSE, reason |-> "Only one potion per room",
             forceBareHanded |-> FALSE]
       ELSE IF /\ type = "monster"
               /\ g.weapon # noWeapon
               /\ g.weapon.lastDefeated # null
               /\ card.value > g.weapon.lastDefeated
       THEN [canResolve |-> TRUE, reason |-> "Monster too strong for weapon",
             forceBareHanded |-> TRUE]
       ELSE [canResolve |-> TRUE, reason |-> "", forceBareHanded |-> FALSE]

----------------------------------------------------------------------------
(* getState and setState.  getState() returns a new object whose fields    *)
(* hold the values of the fields of this: a number or a boolean is copied, *)
(* an array or an object is the same array or object as the one of this.   *)
(* An operation that changes such an array or object in place (push,       *)
(* shift, splice, an assignment to a property of the weapon) changes it in *)
(* the returned object too; an operation that assigns a new array or       *)
(* object to the field of this (this.room = [], this.weapon = {...})       *)
(* leaves the returned object with the old one.                            *)

\* the fields of a Game object that hold an array or an object
objectFields ==
    {"deck", "discard", "room", "weapon", "selectedCards", "eventLog"}

\* the value getState() returns
getState(g) ==
    [ seed |-> g.seed,
      health |-> g.health,
      turn |-> g.turn,
      deck |-> g.deck,
      discard |-> g.discard,
      room |-> g.room,
      weapon |-> g.weapon,
      canAvoid |-> g.canAvoid,
      roomCarriedCard |-> g.roomCarriedCard,
      potionUsedThisTurn |-> g.potionUsedThisTurn,
      selectedCards |-> g.selectedCards,
      gameOver |-> g.gameOver,
      gameWon |-> g.gameWon,
      defeatingCard |-> g.defeatingCard,
      eventLog |-> g.eventLog ]

\* Object.assign(this, state)
setState(g, state) ==
    [g EXCEPT !.seed = state.seed,
              !.health = state.health,
              !.turn = state.turn,
              !.deck = state.deck,
              !.discard = state.discard,
              !.room = state.room,
              !.weapon = state.weapon,
              !.canAvoid = state.canAvoid,
              !.roomCarriedCard = state.roomCarriedCard,
              !.potionUsedThisTurn = state.potionUsedThisTurn,
              !.selectedCards = state.selectedCards,
              !.gameOver = state.gameOver,
              !.gameWon = state.gameWon,
              !.defeatingCard = state.defeatingCard,
              !.eventLog = state.eventLog]

\* the snapshot the driver holds right after getState(): the returned object
\* (state), the Game object as it read at the call (taken), the object
\* fields of state that are the very array or object of the game (shared),
\* and the number of calls made on the game since (calls)
taken(g) ==
    << [ state |-> getState(g), taken |-> g, shared |-> objectFields,
         calls |-> 0 ] >>

\* faceRoom(g) reaches its k-th selected card and that card is a weapon
equipsAt(g, k) ==
    /\ ~resolveLoop(g, SubSeq(g.selectedCards, 1, k - 1)).gameOver
    /\ getCardType(roomAt(g, g.selectedCards[k])) = "weapon"

\* the weapon object of g as it is when faceRoom(g) first assigns a new one
\* to this.weapon (the weapon of g if it assigns none)
weaponAtEquip(g) ==
    IF \E k \in 1..Len(g.selectedCards) : equipsAt(g, k)
    THEN LET first == CHOOSE k \in 1..Len(g.selectedCards) :
                         equipsAt(g, k) /\ \A m \in 1..(k - 1) : ~equipsAt(g, m)
         IN resolveLoop(g, SubSeq(g.selectedCards, 1, first - 1)).weapon
    ELSE g.weapon

\* the object fields to which a call, made on g, assigns a new array or
\* object: reset all of them; drawRoom (also the one chained in avoidRoom
\* and faceRoom) the room and the selection; resolveWeapon the weapon
reassigned(call, g) ==
    CASE call.op = "reset" -> objectFields
      [] call.op = "drawRoom" ->
           IF g.gameOver THEN {} ELSE {"room", "selectedCards"}
      [] call.op = "avoidRoom" ->
           IF call.ret THEN {"room", "selectedCards"} ELSE {}
      [] call.op = "faceRoom" ->
           IF call.ret
           THEN {"room", "selectedCards"}
                  \cup (IF \E k \in 1..Len(g.selectedCards) : equipsAt(g, k)
                        THEN {"weapon"} ELSE {})
           ELSE {}
      [] OTHER -> {}

\* the snapshot sn after a call that has taken the game from g to g2 and has
\* assigned new objects to the fields re: a field still shared reads as the
\* field of g2; a field shared until this call reads as the old object did
\* at the assignment, which is as it read before the call except for the
\* weapon, which faceRoom may have changed before it assigned a new one; a
\* field no longer shared reads as before
snapshotAfter(sn, re, call, g, g2) ==
    [ state |->
        [sn.state EXCEPT
           !.deck = IF "deck" \in sn.shared \ re THEN g2.deck ELSE @,
           !.discard = IF "discard" \in sn.shared \ re THEN g2.discard ELSE @,
           !.room = IF "room" \in sn.shared \ re THEN g2.room ELSE @,
           !.selectedCards =
               IF "selectedCards" \in sn.shared \ re
               THEN g2.selectedCards ELSE @,
           !.eventLog =
               IF "eventLog" \in sn.shared \ re THEN g2.eventLog ELSE @,
           !.weapon =
               IF "weapon" \in sn.shared \ re THEN g2.weapon
               ELSE IF "weapon" \in sn.shared /\ call.op = "faceRoom"
               THEN weaponAtEquip(g)
               ELSE @],
      taken |-> sn.taken,
      shared |-> sn.shared \ re,
      calls |-> sn.calls + 1 ]

\* the snapshot the driver holds, if any, after a call
tracked(snap, call, g, g2) ==
    IF snap = <<>> THEN <<>>
    ELSE <<snapshotAfter(snap[1], reassigned(call, g), call, g, g2)>>

----------------------------------------------------------------------------
(* The state machine: one Game instance and a driver calling its public    *)
(* operations in any order                                                 *)

\* the indices a driver passes to selectCard: the four room positions and
\* one index on either side of them
Indices == -1..4

called(op, ret) == [op |-> op, ret |-> ret]

\* new Game(): the constructor calls reset() with the clock as the seed
Init ==
    \E seed \in Seeds :
        /\ game = reset(seed)
        /\ last = called("reset", TRUE)
        /\ snapshot = <<>>
        /\ timers = [waiting |-> <<>>, scheduled |-> 0]

Reset ==
    \E seed \in Seeds :
        /\ game' = reset(seed)
        /\ last' = called("reset", TRUE)
        /\ snapshot' = tracked(snapshot, last', game, game')
        /\ timers' = timers

DrawRoom ==
    /\ game' = drawRoom(game).game
    /\ last' = called("drawRoom", drawRoom(game).ret)
    /\ snapshot' = tracked(snapshot, last', game, game')
    /\ timers' = timers

AvoidRoom ==
    /\ game' = avoidRoom(game).game
    /\ last' = called("avoidRoom", avoidRoom(game).ret)
    /\ snapshot' = tracked(snapshot, last', game, game')
    /\ timers' = timers

SelectCard ==
    \E index \in Indices :
        /\ game' = selectCard(game, index).game
        /\ last' = called("selectCard", selectCard(game, index).ret)
        /\ snapshot' = tracked(snapshot, last', game, game')
        /\ timers' = timers

FaceRoom ==
    /\ game' = faceRoom(game).game
    /\ last' = called("faceRoom", faceRoom(game).ret)
    /\ snapshot' = tracked(snapshot, last', game, game')
    /\ timers' = timers

Next == Reset \/ DrawRoom \/ AvoidRoom \/ SelectCard \/ FaceRoom

Spec == Init /\ [][Next]_vars

\* The driver of ui.js: it calls drawRoom itself only right after reset
\* (startNewGame, restartGame), on an empty room; every later draw is the one
\* chained inside avoidRoom or faceRoom
DrawFirstRoom ==
    /\ game.room = <<>>
    /\ DrawRoom

NextUI == Reset \/ DrawFirstRoom \/ AvoidRoom \/ SelectCard \/ FaceRoom

SpecUI == Init /\ [][NextUI]_vars

\* reset(seed) alone, over the seeds of the shuffles
InitShuffle ==
    \E seed \in ShuffleSeeds :
        /\ game = reset(seed)
        /\ last = called("reset", TRUE)
        /\ snapshot = <<>>
        /\ timers = [waiting |-> <<>>, scheduled |-> 0]

ResetShuffle ==
    \E seed \in ShuffleSeeds :
        /\ game' = reset(seed)
        /\ last' = called("reset", TRUE)
        /\ snapshot' = tracked(snapshot, last', game, game')
        /\ timers' = timers

SpecShuffle == InitShuffle /\ [][ResetShuffle]_vars

\* The driver of ui.js within one game, when the player keeps selecting
\* cards and facing rooms: the first drawRoom, avoidRoom, selectCard on a
\* room card that is not selected, and faceRoom; each of drawing the first
\* room, selecting and facing happens if it stays possible
SelectNext ==
    \E index \in Indices :
        /\ roomAt(game, index) # noCard
        /\ ~includes(game.selectedCards, index)
        /\ game' = selectCard(game, index).game
        /\ last' = called("selectCard", selectCard(game, index).ret)
        /\ snapshot' = tracked(snapshot, last', game, game')
        /\ timers' = timers

NextFacing == DrawFirstRoom \/ AvoidRoom \/ SelectNext \/ FaceRoom

\* faceRoom() goes past its guard: three cards selected and the game not over
canFace == Len(game.selectedCards) = 3 /\ ~game.gameOver

\* The last conjunct is weak fairness of the faceRoom() that goes past its
\* guard, WF_vars(canFace /\ FaceRoom), with ENABLED written out as canFace
SpecFacing ==
    /\ Init
    /\ [][NextFacing]_vars
    /\ WF_vars(DrawFirstRoom)
    /\ WF_vars(SelectNext)
    /\ ([]<>(~canFace) \/ []<><<canFace /\ FaceRoom>>_vars)

\* A driver that also takes a snapshot of the game (once) and restores it (at
\* any later time, any number of times)
GetState ==
    /\ snapshot = <<>>
    /\ snapshot' = taken(game)
    /\ game' = game
    /\ last' = called("getState", TRUE)
    /\ timers' = timers

SetState ==
    /\ snapshot # <<>>
    /\ game' = setState(game, snapshot[1].state)
    /\ snapshot' = <<[snapshot[1] EXCEPT !.shared = objectFields]>>
    /\ last' = called("setState", FALSE)
    /\ timers' = timers

\* the driver goes on calling the game while it holds no snapshot or has
\* made fewer than MaxSnapshotCalls calls since it took one
withinCalls ==
    IF snapshot = <<>> THEN TRUE ELSE snapshot[1].calls < MaxSnapshotCalls

DrawRoomWithin == withinCalls /\ DrawRoom

AvoidRoomWithin == withinCalls /\ AvoidRoom

SelectCardWithin == withinCalls /\ SelectCard

FaceRoomWithin == withinCalls /\ FaceRoom

NextSnapshot ==
    \/ DrawRoomWithin
    \/ AvoidRoomWithin
    \/ SelectCardWithin
    \/ FaceRoomWithin
    \/ GetState
    \/ SetState

SpecSnapshot == Init /\ [][NextSnapshot]_vars

----------------------------------------------------------------------------
(* The page of ui.js: its event handlers run one at a time, and the        *)
(* callback handleCardClick passes to setTimeout runs later as a handler   *)
(* of its own.  All these timers have the same delay, so the callbacks run *)
(* in the order they were scheduled; nothing cancels one.                  *)

\* the callback scheduled with the game in state g: the function itself
\* holds nothing of g (it reads game.selectedCards when it runs); the record
\* notes the selection at that time (as long as the room is the one it was
\* scheduled in), that the room is still that one, and that no callback has
\* faced that room
scheduled(g) ==
    [selected |-> g.selectedCards, current |-> TRUE, faced |-> FALSE]

\* the waiting callbacks after a new room has replaced the room
RECURSIVE roomReplaced(_)
roomReplaced(ts) ==
    IF ts = <<>> THEN <<>>
    ELSE <<[Head(ts) EXCEPT !.selected = <<>>, !.current = FALSE]>>
           \o roomReplaced(Tail(ts))

\* the waiting callbacks after a callback has faced the room
RECURSIVE roomFaced(_)
roomFaced(ts) ==
    IF ts = <<>> THEN <<>>
    ELSE <<[Head(ts) EXCEPT !.selected = <<>>,
                            !.faced = @ \/ Head(ts).current,
                            !.current = FALSE]>> \o roomFaced(Tail(ts))

\* startNewGame / restartGame: reset(seed), then drawRoom()
StartGame ==
    \E seed \in Seeds :
        /\ game' = drawRoom(reset(seed)).game
        /\ last' = called("drawRoom", drawRoom(reset(seed)).ret)
        /\ snapshot' = snapshot
        /\ timers' = [timers EXCEPT !.waiting = roomReplaced(@)]

\* handleCardClick(index), for a card element of the room: selectCard, and
\* with three cards selected after it a callback on a timer
HandleCardClick ==
    \E index \in Indices :
        /\ ~game.gameOver
        /\ roomAt(game, index) # noCard
        /\ Len(selectCard(game, index).game.selectedCards) = 3
             => timers.scheduled < MaxTimers
        /\ game' = selectCard(game, index).game
        /\ last' = called("selectCard", selectCard(game, index).ret)
        /\ snapshot' = snapshot
        /\ timers' = IF Len(game'.selectedCards) = 3
                     THEN [waiting |-> Append(timers.waiting, scheduled(game')),
                           scheduled |-> timers.scheduled + 1]
                     ELSE timers

\* the Avoid button, which render() disables when the room cannot be
\* avoided: game.avoidRoom()
AvoidButton ==
    /\ game.canAvoid /\ ~game.gameOver /\ Len(game.room) = 4
    /\ game' = avoidRoom(game).game
    /\ last' = called("avoidRoom", avoidRoom(game).ret)
    /\ snapshot' = snapshot
    /\ timers' = [timers EXCEPT !.waiting = roomReplaced(@)]

\* the oldest timer fires: its callback calls game.faceRoom()
TimerFires ==
    /\ timers.waiting # <<>>
    /\ game' = faceRoom(game).game
    /\ last' = called("faceRoom", faceRoom(game).ret)
    /\ snapshot' = snapshot
    /\ timers' = [timers EXCEPT !.waiting = IF last'.ret
                                             THEN roomFaced(Tail(@))
                                             ELSE Tail(@)]

NextTimers == StartGame \/ HandleCardClick \/ AvoidButton \/ TimerFires

SpecTimers == Init /\ [][NextTimers]_vars

----------------------------------------------------------------------------
(* Helpers of the properties *)

\* the bag (multiset) of the elements of a sequence
RECURSIVE BagOf(_)
BagOf(seq) ==
    IF seq = <<>> THEN EmptyBag ELSE SetToBag({Head(seq)}) (+) BagOf(Tail(seq))

\* the carried card as a sequence of 0 or 1 cards
carriedCards(g) ==
    IF g.roomCarriedCard # noCard THEN <<g.roomCarriedCard>> ELSE <<>>

\* the five places of the cards: deck, discard, room, the weapon's defeat
\* history and the carry slot
fivePlaces(g) ==
    g.deck \o g.discard \o g.room \o g.weapon.defeatedMonsters
      \o carriedCards(g)

\* the card of the equipped weapon, as a sequence of 0 or 1 cards
equippedCards(g) ==
    IF g.weapon # noWeapon
    THEN <<[suit |-> SUITS.DIAMONDS, rank |-> String(g.weapon.value),
            value |-> g.weapon.value]>>
    ELSE <<>>

lost(g) == g.gameOver /\ ~g.gameWon

\* the Game object inside faceRoom(g) after the loop has gone through the
\* first k selected cards (or has left at a game over before)
stateAfter(g, k) == resolveLoop(g, SubSeq(g.selectedCards, 1, k))

\* the k-th selected card of g's room
selectedCard(g, k) == roomAt(g, g.selectedCards[k])

\* faceRoom(g) resolves its k-th selected card
resolves(g, k) == ~stateAfter(g, k - 1).gameOver

\* the step from game to game' is a faceRoom() that returned true
Faced == last' = called("faceRoom", TRUE)

\* the log has an entry of this template
logged(g, event) == \E k \in 1..Len(g.eventLog) : g.eventLog[k].event = event

----------------------------------------------------------------------------
(* C1  Card conservation *)

\* C1 as stated: in every state in which the game is not over, the cards of
\* deck, discard, room, weapon.defeatedMonsters and the carry slot are, as a
\* multiset, the cards of the constructed deck, and their count is the deck
\* size.
C1_FivePlacesHoldAllCards ==
    ~game.gameOver =>
        /\ BagOf(fivePlaces(game)) = BagOf(createDeck)
        /\ Len(fivePlaces(game)) = DeckSize

\* C1 amended: when the driver calls drawRoom itself only on an empty room,
\* in every state in which the game is not over the cards of deck, discard,
\* room, weapon.defeatedMonsters and the carry slot together with the card of
\* the equipped weapon (if any) are, as a multiset, the cards of the
\* constructed deck, and their count is the deck size.
C1_SixPlacesHoldAllCards ==
    ~game.gameOver =>
        /\ BagOf(fivePlaces(game) \o equippedCards(game)) = BagOf(createDeck)
        /\ Len(fivePlaces(game)) + Len(equippedCards(game)) = DeckSize

\* a game in progress after a faceRoom in which a second weapon was equipped
\* over a weapon with a defeat history: a weapon is equipped, its token and
\* the defeated monsters are in discard, and the next room has been drawn
C1_Witness ==
    /\ ~game.gameOver
    /\ last = called("faceRoom", TRUE)
    /\ game.weapon # noWeapon
    /\ \E k \in 1..Len(game.eventLog) :
          /\ game.eventLog[k].event = "Discarded old weapon"
          /\ game.eventLog[k].n > 0
    /\ Len(game.room) = 4

----------------------------------------------------------------------------
(* C2  Health bounds *)

\* C2 as stated: at every rest point, the terminal state of a loss included,
\* 0 <= health <= maxHealth.
C2_HealthWithinZeroAndMax ==
    0 <= game.health /\ game.health <= maxHealth

\* C2 amended: at every rest point health <= maxHealth; health >= 1 unless
\* the game is lost; in the terminal state of a loss health <= 0, and it is
\* left at the value the last damage took it to, which may be negative.
C2_HealthBounds ==
    /\ game.health <= maxHealth
    /\ ~lost(game) => game.health >= 1
    /\ lost(game) =>
          /\ game.health <= 0
          /\ game.health > 0 - game.defeatingCard.value

\* a lost game whose health is below zero
C2_Witness ==
    /\ lost(game)
    /\ last = called("faceRoom", TRUE)
    /\ game.health < 0

----------------------------------------------------------------------------
(* C3  No two consecutive avoids *)

\* C3: an avoidRoom() on canAvoid and a 4-card room returns true and sets
\* canAvoid to false; an avoidRoom() while canAvoid is false returns false
\* and changes no field; and canAvoid goes from false to true only in a
\* faceRoom() that returns true or in reset().  Hence between two successful
\* avoids of a game there is a successful faceRoom().
C3_NoTwoConsecutiveAvoids ==
    [][ /\ (last'.op = "avoidRoom" /\ game.canAvoid /\ Len(game.room) = 4)
              => (last'.ret /\ ~game'.canAvoid)
        /\ (last'.op = "avoidRoom" /\ last'.ret)
              => (game.canAvoid /\ ~game'.canAvoid)
        /\ (last'.op = "avoidRoom" /\ ~game.canAvoid)
              => (~last'.ret /\ game' = game)
        /\ (~game.canAvoid /\ game'.canAvoid)
              => (last'.ret /\ last'.op \in {"faceRoom", "reset"})
        /\ (~game.canAvoid /\ last'.op \in {"selectCard", "drawRoom"})
              => ~game'.canAvoid
      ]_vars

\* a second avoidRoom() on a 4-card room of a game in progress, refused:
\* the log shows the first avoid, and selectCard calls came in between
C3_Witness ==
    /\ last = called("avoidRoom", FALSE)
    /\ ~game.canAvoid
    /\ ~game.gameOver
    /\ Len(game.room) = 4
    /\ Len(game.selectedCards) = 2
    /\ logged(game, "Avoided the room")

----------------------------------------------------------------------------
(* C4  Weapon combat rule *)

\* what resolveMonster(m) is to do from pre to post
MonsterRule(pre, post, m) ==
    IF pre.weapon # noWeapon
         /\ (pre.weapon.lastDefeated = null
               \/ m.value <= pre.weapon.lastDefeated)
    THEN /\ post.health = pre.health - Max(0, m.value - pre.weapon.value)
         /\ post.weapon.value = pre.weapon.value
         /\ post.weapon.defeatedMonsters
               = Append(pre.weapon.defeatedMonsters, m)
         /\ post.weapon.lastDefeated = m.value
         /\ post.discard = pre.discard
    ELSE /\ post.health = pre.health - m.value
         /\ post.discard = Append(pre.discard, m)
         /\ post.weapon = pre.weapon

\* C4: in every faceRoom(), each monster it resolves is fought with the
\* weapon if and only if a weapon is equipped and lastDefeated is null or
\* the monster's value is <= lastDefeated; then health drops by
\* max(0, value - weapon.value), the monster goes onto defeatedMonsters and
\* lastDefeated becomes its value; otherwise health drops by the full
\* value, the monster goes to discard and the weapon is unchanged.  The
\* health, weapon and discard faceRoom() leaves are those after its last
\* resolved card.
C4_WeaponCombatRule ==
    [][ Faced =>
          /\ \A k \in 1..3 :
                (resolves(game, k) /\ isMonster(selectedCard(game, k)))
                  => MonsterRule(stateAfter(game, k - 1), stateAfter(game, k),
                                 selectedCard(game, k))
          /\ game'.health = stateAfter(game, 3).health
          /\ game'.weapon = stateAfter(game, 3).weapon
          /\ game'.discard = stateAfter(game, 3).discard
      ]_vars

\* after a faceRoom(): a monster was fought with the weapon at a cost, and
\* another, above lastDefeated, bare-handed at full damage although a
\* weapon was equipped
C4_Witness ==
    /\ last = called("faceRoom", TRUE)
    /\ \E k \in 1..Len(game.eventLog) :
          /\ game.eventLog[k].event = "Fought with weapon"
          /\ game.eventLog[k].n > 0
    /\ \E k \in 1..Len(game.eventLog) :
          /\ game.eventLog[k].event = "too strong for weapon"
          /\ game.eventLog[k].n = game.eventLog[k].card.value
          /\ game.eventLog[k].card.value > game.weapon.lastDefeated
    /\ game.weapon.lastDefeated # null

----------------------------------------------------------------------------
(* C5  One potion per room *)

\* faceRoom(g) resolves a potion before its k-th selected card
potionBefore(g, k) ==
    \E m \in 1..(k - 1) : getCardType(selectedCard(g, m)) = "potion"

\* C5: in every faceRoom(), the first potion in selection order sets health
\* to min(maxHealth, health + value), and every later potion of the room
\* goes to discard and leaves health as it is; every drawRoom() that draws
\* clears the potion-used flag.
C5_OnePotionPerRoom ==
    [][ /\ Faced =>
              \A k \in 1..3 :
                (resolves(game, k)
                   /\ getCardType(selectedCard(game, k)) = "potion")
                  => LET pre == stateAfter(game, k - 1)
                         post == stateAfter(game, k)
                         card == selectedCard(game, k)
                     IN /\ post.discard = Append(pre.discard, card)
                        /\ post.weapon = pre.weapon
                        /\ post.health =
                              IF potionBefore(game, k) THEN pre.health
                              ELSE Min(maxHealth, pre.health + card.value)
        /\ (last'.op = "drawRoom" /\ ~game.gameOver)
              => ~game'.potionUsedThisTurn
        /\ (~game'.gameOver /\ last'.ret
               /\ last'.op \in {"avoidRoom", "faceRoom"})
              => ~game'.potionUsedThisTurn
      ]_vars

\* after a faceRoom() that resolved two potions below full health: the
\* first healed, the second was discarded without effect
C5_Witness ==
    /\ last = called("faceRoom", TRUE)
    /\ \E k \in 2..Len(game.eventLog) :
          /\ game.eventLog[k].event = "discarded - only one potion per room"
          /\ game.eventLog[k - 1].event = "Used potion"
          /\ game.eventLog[k - 1].n > 0
          /\ game.health < maxHealth

----------------------------------------------------------------------------
(* C6  Weapon switch forfeits history *)

\* C6: in every faceRoom(), each weapon card it resolves while a weapon
\* with k defeated monsters is equipped appends k + 1 cards to discard, a
\* diamond of the old weapon's value and then the k defeated monsters; with
\* no weapon equipped discard is unchanged; the weapon equipped is the
\* card's value with lastDefeated null and no defeated monsters.
C6_WeaponSwitch ==
    [][ Faced =>
          \A k \in 1..3 :
            (resolves(game, k)
               /\ getCardType(selectedCard(game, k)) = "weapon")
              => LET pre == stateAfter(game, k - 1)
                     post == stateAfter(game, k)
                     card == selectedCard(game, k)
                 IN /\ post.weapon = [value |-> card.value,
                                       lastDefeated |-> null,
                                       defeatedMonsters |-> <<>>]
                    /\ post.health = pre.health
                    /\ IF pre.weapon # noWeapon
                       THEN /\ post.discard =
                                 pre.discard
                                   \o <<[suit |-> SUITS.DIAMONDS,
                                         rank |-> String(pre.weapon.value),
                                         value |-> pre.weapon.value]>>
                                   \o pre.weapon.defeatedMonsters
                            /\ Len(post.discard) = Len(pre.discard)
                                 + Len(pre.weapon.defeatedMonsters) + 1
                       ELSE post.discard = pre.discard
      ]_vars

\* after a faceRoom() that equipped a weapon over one with two defeated
\* monsters: the last three cards of discard are the old weapon's diamond
\* and the two monsters
C6_Witness ==
    /\ last = called("faceRoom", TRUE)
    /\ game.weapon # noWeapon
    /\ game.weapon.defeatedMonsters = <<>>
    /\ \E k \in 1..Len(game.eventLog) :
          /\ game.eventLog[k].event = "Discarded old weapon"
          /\ game.eventLog[k].n = 2
    /\ Len(game.discard) >= 3
    /\ getCardType(game.discard[Len(game.discard) - 2]) = "weapon"
    /\ isMonster(game.discard[Len(game.discard) - 1])
    /\ isMonster(game.discard[Len(game.discard)])

----------------------------------------------------------------------------
(* C7  Win condition and score *)

\* the score of the last entry endGame wrote to the log
loggedScore(g) == g.eventLog[Len(g.eventLog)].n

\* C7: a drawRoom() called on a game in progress leaves fewer than 4 room
\* cards and an empty deck exactly when it sets gameOver = gameWon = true,
\* and then it returns false; the same holds of the draw chained in a
\* faceRoom() that did not lose; the game becomes won only in a drawRoom(),
\* called by the driver or chained in faceRoom(); and in every won state the
\* game is over, the room holds fewer than 4 cards, the deck is empty, and
\* getScore() is the health, which is >= 0 and is the score endGame logged.
C7_WinConditionAndScore ==
    [][ /\ (last'.op = "drawRoom" /\ ~game.gameOver)
              => /\ (Len(game'.room) < 4 /\ game'.deck = <<>>)
                        <=> (game'.gameOver /\ game'.gameWon)
                 /\ last'.ret = ~game'.gameWon
        /\ (Faced /\ ~lost(game'))
              => ((Len(game'.room) < 4 /\ game'.deck = <<>>)
                    <=> (game'.gameOver /\ game'.gameWon))
        /\ (~game.gameWon /\ game'.gameWon)
              => /\ last'.op \in {"drawRoom", "faceRoom"}
                 /\ Len(game'.room) < 4 /\ game'.deck = <<>>
                 /\ game'.turn = game.turn + 1
                 /\ game'.health >= 1
        /\ game'.gameWon
              => /\ game'.gameOver
                 /\ Len(game'.room) < 4 /\ game'.deck = <<>>
                 /\ getScore(game') = game'.health
                 /\ game'.health >= 0
                 /\ game'.eventLog[Len(game'.eventLog)].event = "Victory"
                 /\ loggedScore(game') = game'.health
      ]_vars

\* a game won by a drawRoom() the driver called, below full health
C7_Witness ==
    /\ last = called("drawRoom", FALSE)
    /\ game.gameWon
    /\ game.health < maxHealth
    /\ getScore(game) = game.health

----------------------------------------------------------------------------
(* C8  Loss score *)

\* the room cards faceRoom(g) has not resolved when it leaves its loop:
\* those at an index it did not select or did not get to
unresolved(g) ==
    LET isLeft(i) ==
            \A k \in 1..Len(g.selectedCards) :
                g.selectedCards[k] = i => ~resolves(g, k)
        pick(i) == IF isLeft(i) THEN <<roomAt(g, i)>> ELSE <<>>
    IN pick(0) \o pick(1) \o pick(2) \o pick(3)

\* C8: when a faceRoom() ends the game as a loss, the score endGame(false)
\* computes is minus the sum of the values of the monsters in the deck and
\* of the monsters of the room that have not been resolved; the monsters
\* resolved before (now in discard or on the weapon) and the defeating
\* monster do not count.
C8_LossScoreCountsUnresolvedMonsters ==
    [][ (Faced /\ lost(game'))
          => loggedScore(game')
               = 0 - (sumValues(SelectSeq(game.deck, isMonster))
                        + sumValues(SelectSeq(unresolved(game), isMonster)))
      ]_vars

----------------------------------------------------------------------------
(* C9  getScore() mirrors endGame *)

\* C9: while the game is in progress getScore() is 0, and once the game is
\* over getScore() is the score endGame computed when it ended the game.
C9_GetScoreMirrorsEndGame ==
    /\ ~game.gameOver => getScore(game) = 0
    /\ game.gameOver => getScore(game) = loggedScore(game)

----------------------------------------------------------------------------
(* C10  Carried card propagation *)

\* the room index of g that is not selected (with 3 of 0..3 selected)
unselectedIndex(g) ==
    CHOOSE i \in 0..3 : \A k \in 1..Len(g.selectedCards) : g.selectedCards[k] # i

\* C10: every faceRoom() that returns true is called on a 4-card room with
\* 3 distinct indices selected; if the game then goes on (or is won by the
\* chained draw) the card at the unselected index is the first card of the
\* room and the carry slot is empty; if the face ended the game as a loss,
\* that card is in the carry slot.
C10_CarriedCardPropagation ==
    [][ Faced =>
          LET carried == roomAt(game, unselectedIndex(game))
          IN /\ Len(game.room) = 4
             /\ Cardinality({game.selectedCards[k] : k \in 1..3}) = 3
             /\ carried # noCard
             /\ ~lost(game')
                   => /\ game'.room # <<>>
                      /\ game'.room[1] = carried
                      /\ game'.roomCarriedCard = noCard
             /\ lost(game') => game'.roomCarriedCard = carried
      ]_vars

\* a game in progress after a faceRoom(): the first card of the new room is
\* the card the log names as carried, and it stood at neither end of the
\* faced room's draw (the deck's cards follow it)
C10_Witness ==
    /\ last = called("faceRoom", TRUE)
    /\ ~game.gameOver
    /\ Len(game.room) = 4
    /\ game.roomCarriedCard = noCard
    /\ \E k \in 1..Len(game.eventLog) :
          /\ game.eventLog[k].event = "Carried"
          /\ game.eventLog[k].card = game.room[1]

----------------------------------------------------------------------------
(* C11  Deck composition *)

\* the number of cards of a deck that are the card of this suit and rank entry
copies(deck, suit, e) ==
    Cardinality({k \in 1..Len(deck) :
        deck[k] = [suit |-> suit, rank |-> e.rank, value |-> e.value]})

\* C11: right after reset(seed), for any seed, the deck holds exactly the
\* cards of the dungeon, each once: a club and a spade (the monsters) of every
\* rank and a diamond (weapon) and a heart (potion) of every rank 2..10, and
\* nothing else (44 cards with the full rank table: 26 + 9 + 9); it is a
\* permutation of the constructed deck
C11_DeckComposition ==
    last.op = "reset" =>
        /\ Len(game.deck)
             = 2 * Len(RANKS) + 2 * Len(SelectSeq(RANKS, IsPip))
        /\ \A k \in 1..Len(RANKS) :
             /\ copies(game.deck, SUITS.CLUBS, RANKS[k]) = 1
             /\ copies(game.deck, SUITS.SPADES, RANKS[k]) = 1
             /\ copies(game.deck, SUITS.DIAMONDS, RANKS[k])
                  = (IF IsPip(RANKS[k]) THEN 1 ELSE 0)
             /\ copies(game.deck, SUITS.HEARTS, RANKS[k])
                  = (IF IsPip(RANKS[k]) THEN 1 ELSE 0)
        /\ BagOf(game.deck) = BagOf(createDeck)

----------------------------------------------------------------------------
(* C13  Invalid operations are silent no-ops *)

\* the call refused: it returns false and the Game object is as before
refused(g) == [game |-> g, ret |-> FALSE]

\* C13: avoidRoom() when canAvoid is false or the room does not hold exactly
\* 4 cards, faceRoom() when the selection does not hold exactly 3 indices, and
\* selectCard(i) when i references no card of the room each return false and
\* leave every field of the state as it was
C13_InvalidOperationsAreNoOps ==
    [][ /\ (last'.op = "avoidRoom"
              /\ (~game.canAvoid \/ Len(game.room) # 4))
           => (game' = game /\ last'.ret = FALSE)
        /\ (last'.op = "faceRoom" /\ Len(game.selectedCards) # 3)
           => (game' = game /\ last'.ret = FALSE)
        /\ \A index \in Indices :
             roomAt(game, index) = noCard
               => selectCard(game, index) = refused(game)
        /\ (last'.op = "selectCard"
              /\ \A index \in Indices : roomAt(game, index) = noCard)
           => (game' = game /\ last'.ret = FALSE) ]_vars

\* a faceRoom() refused in a running game with two cards selected
C13_Witness ==
    /\ last = called("faceRoom", FALSE)
    /\ ~game.gameOver
    /\ Len(game.room) = 4
    /\ Len(game.selectedCards) = 2

----------------------------------------------------------------------------
(* C14  Terminal states are absorbing *)

\* C14: once gameOver is true, every later drawRoom, avoidRoom, selectCard
\* and faceRoom returns false and changes no field; gameOver and gameWon
\* change only by reset(), so a won game never becomes lost nor a lost game
\* won
C14_TerminalStatesAbsorbing ==
    [][ (game.gameOver /\ last'.op # "reset")
           => /\ game' = game
              /\ last'.ret = FALSE ]_vars

\* a selectCard refused in a won game whose last room still shows cards
C14_Witness ==
    /\ game.gameWon
    /\ Len(game.room) > 0
    /\ last = called("selectCard", FALSE)

----------------------------------------------------------------------------
(* C15  Room size *)

\* C15: the room never holds more than 4 cards; in a game that has drawn a
\* room (turn > 0) and is not over it holds exactly 4; a room of fewer than 4
\* cards after a draw comes only with an empty deck and gameWon (the one
\* other short room is the room of a lost game, which faceRoom has emptied)
C15_RoomSize ==
    /\ Len(game.room) <= 4
    /\ (game.turn = 0) => (game.room = <<>> /\ ~game.gameOver)
    /\ (game.turn > 0 /\ ~game.gameOver) => Len(game.room) = 4
    /\ (game.turn > 0 /\ Len(game.room) < 4)
         => \/ game.gameWon /\ game.deck = <<>>
            \/ lost(game) /\ game.room = <<>>

\* a game won by the draw chained in faceRoom, with a last room of fewer
\* than 4 cards
C15_Witness ==
    /\ last = called("faceRoom", TRUE)
    /\ game.gameWon
    /\ game.deck = <<>>
    /\ Len(game.room) > 0
    /\ Len(game.room) < 4

----------------------------------------------------------------------------
(* C16  Snapshot round trip *)

\* C16: with s = getState() taken in any reachable state and further
\* operations applied, setState(s) restores every field of the game to the
\* value it had when the snapshot was taken
C16_SnapshotRoundTrip ==
    last.op = "setState" => game = snapshot[1].taken

----------------------------------------------------------------------------
(* C17  canResolveCard is advisory *)

\* the cards of the dungeon
Cards == {createDeck[k] : k \in 1..Len(createDeck)}

\* the Game objects canResolveCard can be called on: the game between two
\* calls, and the game inside a faceRoom() that would go ahead, after each
\* card it resolves
callPoints ==
    {game} \cup (IF Len(game.selectedCards) = 3 /\ ~game.gameOver
                 THEN {stateAfter(game, k) : k \in 1..3}
                 ELSE {})

\* C17: in every state canResolveCard(card) reports no block (canResolve is
\* true), also for a potion after a potion was used in the room, which only
\* gets a reason and is resolved by faceRoom all the same; forceBareHanded
\* is set exactly for a monster above the lastDefeated of the equipped
\* weapon, which is exactly when resolveMonster fights bare-handed despite
\* the weapon
C17_CanResolveCardIsAdvisory ==
    \A g \in callPoints : \A card \in Cards :
        /\ canResolveCard(g, card).canResolve
        /\ canResolveCard(g, card).forceBareHanded
             = ( /\ isMonster(card)
                 /\ g.weapon # noWeapon
                 /\ g.weapon.lastDefeated # null
                 /\ card.value > g.weapon.lastDefeated )
        /\ canResolveCard(g, card).forceBareHanded
             = ( /\ isMonster(card)
                 /\ g.weapon # noWeapon
                 /\ ~canUseWeapon(g, card) )
        /\ (getCardType(card) = "potion" /\ g.potionUsedThisTurn)
             => /\ canResolveCard(g, card).reason = "Only one potion per room"
                /\ resolveCard(g, card).health = g.health
                /\ resolveCard(g, card).discard = Append(g.discard, card)

----------------------------------------------------------------------------
(* C18  Resolution in selection order, stopping at a game over *)

\* the card is in none of the places a resolved card goes to
untouched(g, card) ==
    /\ ~includes(g.discard, card)
    /\ ~includes(g.weapon.defeatedMonsters, card)
    /\ card.suit = SUITS.DIAMONDS => g.weapon.value # card.value

\* C18: faceRoom() resolves the selected cards in the order they were
\* selected, not in the order of their room positions: health, weapon,
\* discard and the log are those of resolving the first selected card, then
\* the second, then the third; and once a card has ended the game the later
\* selected cards are not resolved: they reach neither the discard pile nor
\* the weapon, and nothing changes after the fatal card
C18_SelectionOrderResolution ==
    [][ Faced =>
          LET first == resolveCard(game, selectedCard(game, 1))
              second == IF first.gameOver THEN first
                        ELSE resolveCard(first, selectedCard(game, 2))
              third == IF second.gameOver THEN second
                       ELSE resolveCard(second, selectedCard(game, 3))
          IN /\ game'.health = third.health
             /\ game'.weapon = third.weapon
             /\ game'.discard = third.discard
             /\ SubSeq(game'.eventLog, 1, Len(third.eventLog)) = third.eventLog
             /\ lost(game') = third.gameOver
             /\ first.gameOver
                  => /\ game'.defeatingCard = selectedCard(game, 1)
                     /\ untouched(game', selectedCard(game, 2))
                     /\ untouched(game', selectedCard(game, 3))
             /\ (~first.gameOver /\ second.gameOver)
                  => /\ game'.defeatingCard = selectedCard(game, 2)
                     /\ untouched(game', selectedCard(game, 3)) ]_vars

\* a first room faced with a card of a later room position selected before
\* a card of an earlier one, and lost at the second selected card: the two
\* are in the discard pile in selection order and the third is not
C18_Witness ==
    /\ last = called("faceRoom", TRUE)
    /\ lost(game)
    /\ game.turn = 1
    /\ Len(game.discard) = 2
    /\ indexOf(reset(game.seed).deck, game.discard[1])
         > indexOf(reset(game.seed).deck, game.discard[2])
    /\ game.defeatingCard = game.discard[2]

----------------------------------------------------------------------------
(* C19  The selection *)

\* at most 3 indices, pairwise distinct, each of a card of the room
wellSelected(g) ==
    /\ Len(g.selectedCards) <= 3
    /\ \A k, m \in 1..Len(g.selectedCards) :
          g.selectedCards[k] = g.selectedCards[m] => k = m
    /\ \A k \in 1..Len(g.selectedCards) :
          roomAt(g, g.selectedCards[k]) # noCard

\* the selection after a toggle of index: without it if it was selected,
\* with it at the end if it was not and fewer than 3 were, else as before
toggled(selected, index) ==
    LET other(x) == x # index
    IN IF includes(selected, index) THEN SelectSeq(selected, other)
       ELSE IF Len(selected) < 3 THEN Append(selected, index)
       ELSE selected

\* selectCard(index) returns true and changes the selection as a toggle, and
\* nothing else
toggles(g, index) ==
    selectCard(g, index)
      = [game |-> [g EXCEPT !.selectedCards = toggled(@, index)],
         ret |-> TRUE]

\* the step from game to game' ran drawRoom, called by the driver or chained
\* in avoidRoom or faceRoom
drew ==
    \/ last'.op = "drawRoom" /\ ~game.gameOver
    \/ last' = called("avoidRoom", TRUE)
    \/ Faced /\ ~lost(game')

\* C19 as stated: the selection always holds at most 3 pairwise distinct
\* indices of room cards; selectCard(i) on the index of a room card removes
\* i if it is selected, appends it if it is not and fewer than 3 are, and
\* else leaves the selection alone, returning true in all three cases; every
\* drawRoom(), chained ones included, empties the selection
C19_SelectionRule ==
    [][ /\ wellSelected(game)
        /\ wellSelected(game')
        /\ \A index \in Indices :
             roomAt(game, index) # noCard => toggles(game, index)
        /\ drew => game'.selectedCards = <<>> ]_vars

\* C19, amended: the same, with the toggle stated for a game that is not
\* over (in a won game whose last room still shows cards selectCard returns
\* false and selects nothing)
C19_SelectionRuleWhileRunning ==
    [][ /\ wellSelected(game)
        /\ wellSelected(game')
        /\ \A index \in Indices :
             (roomAt(game, index) # noCard /\ ~game.gameOver)
               => toggles(game, index)
        /\ drew => game'.selectedCards = <<>> ]_vars

\* three cards selected by a selectCard that returned true, the first
\* selected of a later room position than the last
C19_Witness ==
    /\ last = called("selectCard", TRUE)
    /\ ~game.gameOver
    /\ Len(game.selectedCards) = 3
    /\ game.selectedCards[1] > game.selectedCards[3]

----------------------------------------------------------------------------
(* C20  The effect of avoidRoom *)

\* C20: a successful avoidRoom() puts the 4 cards of the room at the back of
\* the deck in room order and makes the new room of the first 4 cards of the
\* resulting deck, in deck order; health, weapon and discard pile are not
\* changed and canAvoid becomes false
C20_AvoidRoomEffect ==
    [][ last' = called("avoidRoom", TRUE) =>
          LET resulting == game.deck \o game.room
          IN /\ Len(game.room) = 4
             /\ game'.room = SubSeq(resulting, 1, 4)
             /\ game'.deck = SubSeq(resulting, 5, Len(resulting))
             /\ game'.health = game.health
             /\ game'.weapon = game.weapon
             /\ game'.discard = game.discard
             /\ game'.canAvoid = FALSE ]_vars

\* a room avoided after a room was faced, with a deck that was not empty:
\* the game holds a weapon and a discard pile, and the deck the cards of the
\* avoided room that did not fit the new room
C20_Witness ==
    /\ last = called("avoidRoom", TRUE)
    /\ ~game.canAvoid
    /\ Len(game.room) = 4
    /\ game.deck # <<>>
    /\ game.turn > 2
    /\ game.weapon # noWeapon
    /\ game.discard # <<>>

----------------------------------------------------------------------------
(* C21  Room composition on draw *)

\* g2 is what a draw makes of the previous deck and the carried cards (a
\* sequence of 0 or 1 cards): the room is the carried card followed by the
\* first k cards of the deck, the deck is without them, the carry slot is
\* empty
drawnFrom(deck, carried, g2) ==
    LET k == Min(Len(deck), 4 - Len(carried))
    IN /\ g2.room = carried \o SubSeq(deck, 1, k)
       /\ g2.deck = SubSeq(deck, k + 1, Len(deck))
       /\ g2.roomCarriedCard = noCard

\* C21: after a drawRoom() that is not rejected the room is the carried card
\* (if there was one) followed by the first k cards of the previous deck in
\* deck order, k = min(deck size, 4 - number of carried cards), the deck is
\* the previous deck without those k cards, and the carry slot is empty.
\* This for the draw the driver calls, for the draw chained in avoidRoom
\* (previous deck: the deck with the room put back) and for the draw chained
\* in faceRoom (carried: the card left unselected)
C21_RoomCompositionOnDraw ==
    [][ /\ (last'.op = "drawRoom" /\ ~game.gameOver)
           => drawnFrom(game.deck, carriedCards(game), game')
        /\ last' = called("avoidRoom", TRUE)
           => drawnFrom(game.deck \o game.room, <<>>, game')
        /\ (Faced /\ ~lost(game'))
           => drawnFrom(game.deck,
                        <<roomAt(game, unselectedIndex(game))>>, game') ]_vars

\* a game won by the draw chained in faceRoom: the last room is the carried
\* card and the one or two cards the deck still had
C21_Witness ==
    /\ last = called("faceRoom", TRUE)
    /\ game.gameWon
    /\ Len(game.room) >= 2
    /\ Len(game.room) < 4
    /\ \E k \in 1..Len(game.eventLog) :
          /\ game.eventLog[k].event = "Carried"
          /\ game.eventLog[k].card = game.room[1]
          /\ k > Len(game.eventLog) - 2

----------------------------------------------------------------------------
(* C22  Turn counter *)

\* C22: turn is 0 after reset and never decreases within a game; every
\* drawRoom() executed while the game is not over adds exactly 1 to it, the
\* draw that wins the game and the draws chained in avoidRoom and faceRoom
\* included; selectCard, a rejected operation and a faceRoom that ends in a
\* loss leave it unchanged
C22_TurnCounter ==
    [][ /\ last'.op = "reset" => game'.turn = 0
        /\ last'.op # "reset" => game'.turn >= game.turn
        /\ drew => game'.turn = game.turn + 1
        /\ (last'.op # "reset" /\ ~drew) => game'.turn = game.turn
        /\ last'.op = "selectCard" => game'.turn = game.turn
        /\ (last'.op # "reset" /\ last'.ret = FALSE /\ game'.gameWon = game.gameWon)
             => game'.turn = game.turn
        /\ (Faced /\ lost(game')) => game'.turn = game.turn ]_vars

\* a game won at its third turn by the draw chained in the second faceRoom
C22_Witness ==
    /\ last = called("faceRoom", TRUE)
    /\ game.gameWon
    /\ game.turn = 3
    /\ ~logged(game, "Avoided the room")

----------------------------------------------------------------------------
(* C23  Weapon history *)

\* C23: in every reachable state with a weapon equipped the values of
\* weapon.defeatedMonsters, in append order, never increase; lastDefeated is
\* null exactly when defeatedMonsters is empty, and else it is the value of
\* the last monster of defeatedMonsters
C23_WeaponHistory ==
    game.weapon # noWeapon =>
        LET defeated == game.weapon.defeatedMonsters
        IN /\ \A k \in 1..(Len(defeated) - 1) :
                defeated[k].value >= defeated[k + 1].value
           /\ (game.weapon.lastDefeated = null) = (defeated = <<>>)
           /\ defeated # <<>>
                => game.weapon.lastDefeated = defeated[Len(defeated)].value

\* a weapon with two defeated monsters, the second of a lower value
C23_Witness ==
    /\ game.weapon # noWeapon
    /\ Len(game.weapon.defeatedMonsters) >= 2
    /\ game.weapon.defeatedMonsters[1].value
         > game.weapon.defeatedMonsters[2].value
    /\ game.weapon.lastDefeated = game.weapon.defeatedMonsters[2].value

----------------------------------------------------------------------------
(* C24  Conservation counting the equipped weapon *)

\* C24: when the driver calls drawRoom itself only once after reset, in every
\* state in which the game has not been lost, won games included, the sizes
\* of deck, discard, room and weapon.defeatedMonsters, plus 1 for a carried
\* card and 1 for an equipped weapon, add up to the size of the dungeon (44
\* with the full rank table), and no card is in two of these places: the
\* six places hold the constructed deck as a multiset
C24_ConservationWithWeapon ==
    ~lost(game) =>
        /\ Len(game.deck) + Len(game.discard) + Len(game.room)
             + Len(game.weapon.defeatedMonsters)
             + (IF game.roomCarriedCard # noCard THEN 1 ELSE 0)
             + (IF game.weapon # noWeapon THEN 1 ELSE 0)
             = DeckSize
        /\ BagOf(fivePlaces(game) \o equippedCards(game)) = BagOf(createDeck)

\* a won game with a weapon equipped that has defeated monsters, cards in
\* the discard pile and cards left in the last room
C24_Witness ==
    /\ game.gameWon
    /\ game.weapon # noWeapon
    /\ game.weapon.defeatedMonsters # <<>>
    /\ game.discard # <<>>
    /\ game.room # <<>>

----------------------------------------------------------------------------
(* C25  Bounded game length *)

\* the number of log entries of this template
count(g, event) ==
    Cardinality({k \in 1..Len(g.eventLog) : g.eventLog[k].event = event})

\* the successful faceRoom() calls of the game so far: every draw is the
\* first one, follows an avoided room or follows a faced room, and of the
\* faced rooms only one that ends the game as a loss has no draw
faces(g) ==
    IF g.turn = 0 THEN 0
    ELSE g.turn - 1 - count(g, "Avoided the room") + (IF lost(g) THEN 1 ELSE 0)

\* the most rooms one game can face: the first room takes 4 cards of the
\* dungeon and every faced room 3 more, until fewer than 3 are left (14 for
\* the 44 cards of the full rank table)
mostFaces == ((DeckSize - 4) \div 3) + 1

\* the highest turn: the first draw, and for every faced room its draw and
\* the draw of one room avoided before it (29 for the full rank table)
mostTurns == 1 + 2 * mostFaces

\* C25: under the UI protocol every game has at most mostFaces (14)
\* successful faceRoom() calls and turn never exceeds mostTurns (29); a game
\* that survives that many faced rooms is won on the draw that follows the
\* last of them; and if the driver keeps selecting three cards and facing,
\* gameOver is eventually reached
C25_BoundedGameLength ==
    /\ [](/\ faces(game) <= mostFaces
          /\ game.turn <= mostTurns
          /\ (faces(game) = mostFaces /\ ~lost(game)) => game.gameWon)
    /\ [][ /\ Faced => faces(game') = faces(game) + 1
           /\ (~Faced /\ last'.op # "reset") => faces(game') = faces(game)
           /\ (Faced /\ faces(game') = mostFaces /\ ~lost(game'))
                => (game'.gameWon /\ game'.turn = game.turn + 1) ]_vars
    /\ <>game.gameOver

\* a game won at the highest turn: a room avoided before each faced room
C25_Witness ==
    /\ game.gameWon
    /\ game.turn = mostTurns
    /\ faces(game) = mostFaces
    /\ count(game, "Avoided the room") = mostFaces

----------------------------------------------------------------------------
(* C26  Outcome flags *)

\* C26: gameWon implies gameOver; defeatingCard is non-null exactly when the
\* game is over and not won, and it is then a monster card; health <= 0
\* exactly when the game is lost, so a won game has health >= 1
C26_OutcomeFlags ==
    /\ game.gameWon => game.gameOver
    /\ (game.defeatingCard # noCard) <=> lost(game)
    /\ game.defeatingCard # noCard => isMonster(game.defeatingCard)
    /\ (game.health <= 0) <=> lost(game)
    /\ game.gameWon => game.health >= 1

\* a game lost to a monster that took the last health
C26_Witness ==
    /\ lost(game)
    /\ game.health <= 0
    /\ game.defeatingCard # noCard
    /\ isMonster(game.defeatingCard)

----------------------------------------------------------------------------
(* C27  Carry slot at rest *)

\* C27: after any public operation returns with gameOver false,
\* roomCarriedCard is null; hence the avoidRoom() that goes past its guard
\* finds the carry slot empty, and clearing it removes no card from play
C27_CarrySlotEmptyAtRest ==
    /\ [](~game.gameOver => game.roomCarriedCard = noCard)
    /\ [][last' = called("avoidRoom", TRUE)
            => /\ game.roomCarriedCard = noCard
               /\ BagOf(fivePlaces(game') \o equippedCards(game'))
                    = BagOf(fivePlaces(game) \o equippedCards(game))]_vars

\* a room avoided in a game in progress after a faced room carried a card
\* into it
C27_Witness ==
    /\ ~game.gameOver
    /\ last = called("avoidRoom", TRUE)
    /\ count(game, "Carried") > 0
    /\ game.roomCarriedCard = noCard

----------------------------------------------------------------------------
(* C28  Avoiding never ends the game *)

\* C28: an avoidRoom() that returns true leaves a room of exactly 4 cards
\* and a game that is neither over nor won, for every size of the deck
\* before the call
C28_AvoidNeverEndsGame ==
    [][last' = called("avoidRoom", TRUE)
        => /\ Len(game'.room) = 4
           /\ ~game'.gameOver
           /\ ~game'.gameWon]_vars

\* a room avoided with an empty deck: the deck is empty again after the four
\* cards went under it and were drawn
C28_Witness ==
    /\ last = called("avoidRoom", TRUE)
    /\ game.deck = <<>>
    /\ Len(game.room) = 4
    /\ ~game.gameOver

----------------------------------------------------------------------------
(* C29  Deferred auto-face *)

\* C29: for every interleaving of card clicks, the Avoid button and restarts
\* before a timer of handleCardClick fires, its callback resolves the three
\* cards, in the order, that were selected when it was scheduled (it faces
\* the room it was scheduled in with that selection), or resolves nothing
\* (faceRoom returns false); and a callback whose room has already been
\* faced by a callback resolves nothing
C29_DeferredFace ==
    [][(timers.waiting # <<>> /\ last'.op = "faceRoom")
        => /\ last'.ret => /\ Head(timers.waiting).current
                           /\ game.selectedCards
                                = Head(timers.waiting).selected
           /\ Head(timers.waiting).faced => ~last'.ret]_vars

====
